---------------------------- MODULE Spec2Model ----------------------------
(* A model of optitrack_vrpn's TrackerHandler                              *)
(* (src/src/optitrack_vrpn/tracker_handler.cpp): the constructor, the      *)
(* VRPN position callback with its two publishers and the transform        *)
(* broadcaster, and the name sanitizer.                                    *)
(*                                                                         *)
(* Numbers.  A C++ double is modelled exactly, as an element of the ring   *)
(* Z[sqrt 2][1/2]: the record [a, b, k] stands for (a + b*sqrt(2)) / 2^k   *)
(* and is kept in lowest terms.  Every value the handler computes from     *)
(* the inputs drawn below lies in that ring (the two rotation constants    *)
(* have components 0, +-1/2 and +-sqrt(2)/2).  Floating-point rounding is  *)
(* not modelled.                                                           *)
(*                                                                         *)
(* Strings.  A std::string that the code scans or concatenates is a        *)
(* sequence of one-character strings; "0xE9" stands for one byte above     *)
(* 127.  Frame labels, which the code only copies, are TLA+ strings.       *)
EXTENDS Integers, Sequences, FiniteSets, TLC

VARIABLES
    handler,            \* [h -> the TrackerHandler object's fields]
    out,                \* everything published or broadcast so far, in order
    log,                \* the callback invocations so far: handler, info, stamp
    time_manager_calls, \* the arguments of resolve_timestamp so far, in order
    hi_alnum,           \* what isalnum answers for a byte above 127
    s_name,             \* sanitize_name harness: the argument
    s_out,              \* sanitize_name harness: the returned string
    s_pc,               \* sanitize_name harness: "call" or "ret"
    s_fed               \* sanitize_name harness: the argument is an earlier result

vars == <<handler, out, log, time_manager_calls, hi_alnum, s_name, s_out, s_pc, s_fed>>

-----------------------------------------------------------------------------
(* Bounds *)

MaxUpdates == 2     \* tracker updates dispatched in one run of Spec
MaxCoord == 1       \* PoseSpec: position components range over -MaxCoord..MaxCoord
MaxLen == 5         \* SanSpec: longest name sanitized

-----------------------------------------------------------------------------
(* double: exact arithmetic in Z[sqrt 2][1/2] *)

\* The arithmetic is written as functions so that each argument is evaluated
\* once.
NumT == [a : Int, b : Int, k : Nat]

NormF[n \in NumT] ==
    IF n.k > 0 /\ n.a % 2 = 0 /\ n.b % 2 = 0
    THEN NormF[[a |-> n.a \div 2, b |-> n.b \div 2, k |-> n.k - 1]]
    ELSE n

Norm(n) == NormF[n]

Num(i) == [a |-> i, b |-> 0, k |-> 0]
Half(i) == Norm([a |-> i, b |-> 0, k |-> 1])

NNegF[p \in NumT] == [a |-> -p.a, b |-> -p.b, k |-> p.k]

NNeg(p) == NNegF[p]

NAddF[p \in NumT, q \in NumT] ==
    LET k == IF p.k > q.k THEN p.k ELSE q.k
        sp == 2 ^ (k - p.k)
        sq == 2 ^ (k - q.k)
    IN  Norm([a |-> p.a * sp + q.a * sq, b |-> p.b * sp + q.b * sq, k |-> k])

NAdd(p, q) == NAddF[p, q]

NSub(p, q) == NAdd(p, NNeg(q))

NMulF[p \in NumT, q \in NumT] ==
    Norm([a |-> p.a * q.a + 2 * p.b * q.b,
          b |-> p.a * q.b + p.b * q.a,
          k |-> p.k + q.k])

NMul(p, q) == NMulF[p, q]

-----------------------------------------------------------------------------
(* tf2::Quaternion, as the handler uses it *)

Quaternion(x, y, z, w) == [x |-> x, y |-> y, z |-> z, w |-> w]

\* cos and sin of half of an angle given in quarter turns (units of pi/2)
CosHalf(q) == IF q = 0 THEN Num(1) ELSE [a |-> 0, b |-> 1, k |-> 1]
SinHalf(q) ==
    IF q = 0 THEN Num(0)
    ELSE IF q > 0 THEN [a |-> 0, b |-> 1, k |-> 1]
    ELSE [a |-> 0, b |-> -1, k |-> 1]

\* tf2::Quaternion::setRPY, the angles in quarter turns
setRPY(roll, pitch, yaw) ==
    LET cy == CosHalf(yaw)
        sy == SinHalf(yaw)
        cp == CosHalf(pitch)
        sp == SinHalf(pitch)
        cr == CosHalf(roll)
        sr == SinHalf(roll)
    IN  Quaternion(
            NSub(NMul(NMul(sr, cp), cy), NMul(NMul(cr, sp), sy)),
            NAdd(NMul(NMul(cr, sp), cy), NMul(NMul(sr, cp), sy)),
            NSub(NMul(NMul(cr, cp), sy), NMul(NMul(sr, sp), cy)),
            NAdd(NMul(NMul(cr, cp), cy), NMul(NMul(sr, sp), sy)))

\* tf2::Quaternion::inverse
inverse(q) == Quaternion(NNeg(q.x), NNeg(q.y), NNeg(q.z), q.w)

\* tf2's operator*(Quaternion, Quaternion): the Hamilton product q1 * q2
QuatMul(q1, q2) ==
    Quaternion(
        NSub(NAdd(NAdd(NMul(q1.w, q2.x), NMul(q1.x, q2.w)), NMul(q1.y, q2.z)), NMul(q1.z, q2.y)),
        NSub(NAdd(NAdd(NMul(q1.w, q2.y), NMul(q1.y, q2.w)), NMul(q1.z, q2.x)), NMul(q1.x, q2.z)),
        NSub(NAdd(NAdd(NMul(q1.w, q2.z), NMul(q1.z, q2.w)), NMul(q1.x, q2.y)), NMul(q1.y, q2.x)),
        NSub(NSub(NSub(NMul(q1.w, q2.w), NMul(q1.x, q2.x)), NMul(q1.y, q2.y)), NMul(q1.z, q2.z)))

-----------------------------------------------------------------------------
(* TrackerHandler::sanitize_name *)

Letters ==
    {"a", "b", "c", "d", "e", "f", "g", "h", "i", "j", "k", "l", "m",
     "n", "o", "p", "q", "r", "s", "t", "u", "v", "w", "x", "y", "z",
     "A", "B", "C", "D", "E", "F", "G", "H", "I", "J", "K", "L", "M",
     "N", "O", "P", "Q", "R", "S", "T", "U", "V", "W", "X", "Y", "Z"}
Digits == {"0", "1", "2", "3", "4", "5", "6", "7", "8", "9"}
HighByte == "0xE9"

\* isalnum(c).  c is a (signed) char: for a byte above 127 the argument is
\* negative and the call's behaviour is undefined; the answer the build and
\* locale give is hi_alnum.
isalnum(c) == c \in Letters \/ c \in Digits \/ (c = HighByte /\ hi_alnum)

\* A variant that keeps a leading '_'.
sanitize_char_keep_first(c, first_character) ==
    IF isalnum(c) \/ c = "/" THEN <<c>>
    ELSE IF c = "_" THEN <<c>>
    ELSE IF c = " " THEN <<"_">>
    ELSE <<>>

\* A variant that writes a space as it is.
sanitize_char_space_kept(c, first_character) ==
    IF isalnum(c) \/ c = "/" THEN <<c>>
    ELSE IF c = "_" /\ ~first_character THEN <<c>>
    ELSE IF c = " " THEN <<c>>
    ELSE <<>>

\* One pass of the loop body: what is written to the stream for c.
sanitize_char(c, first_character) ==
    IF isalnum(c) \/ c = "/" THEN <<c>>
    ELSE IF c = "_" /\ ~first_character THEN <<c>>
    ELSE IF c = " " THEN <<"_">>
    ELSE <<>>

\* The loop over the characters of name, from position i on.
RECURSIVE sanitize_loop(_, _, _, _)
sanitize_loop(name, i, first_character, stream) ==
    IF i > Len(name) THEN stream
    ELSE sanitize_loop(name, i + 1, FALSE,
                       stream \o sanitize_char(name[i], first_character))

sanitize_name(name) == sanitize_loop(name, 1, TRUE, <<>>)

-----------------------------------------------------------------------------
(* The sanitize_name harness: call it on a name, then on its own result *)

Alphabet == {"a", "7", "/", "_", " ", "-", HighByte}

Strings(n) == UNION {[1..m -> Alphabet] : m \in 0..n}

SanInit ==
    /\ s_name \in Strings(MaxLen)
    /\ s_out = <<>>
    /\ s_pc = "call"
    /\ s_fed = FALSE
    /\ hi_alnum \in BOOLEAN
    /\ handler = <<>>
    /\ out = <<>>
    /\ log = <<>>
    /\ time_manager_calls = <<>>

SanitizeCall ==
    /\ s_pc = "call"
    /\ s_out' = sanitize_name(s_name)
    /\ s_pc' = "ret"
    /\ UNCHANGED <<s_name, s_fed, hi_alnum, handler, out, log, time_manager_calls>>

SanitizeAgain ==
    /\ s_pc = "ret"
    /\ ~s_fed
    /\ s_name' = s_out
    /\ s_out' = <<>>
    /\ s_fed' = TRUE
    /\ s_pc' = "call"
    /\ UNCHANGED <<hi_alnum, handler, out, log, time_manager_calls>>

SanNext == SanitizeCall \/ SanitizeAgain

SanSpec == SanInit /\ [][SanNext]_vars

-----------------------------------------------------------------------------
(* TrackerHandler: construction *)

Handlers == {"h1", "h2"}

\* The tracker name each constructor is given (one handler per rigid body).
Names ==
    [h1 |-> <<"M", "y", " ", "T", "r", "a", "c", "k", "/", "1">>,
     h2 |-> <<"_", "r", "b", "-", HighByte, "2">>]

\* TrackerHandlerOptions values
OptionsSet ==
    {[host |-> <<"m", "o", "c", "a", "p">>, frame |-> "optitrack", ned_frame |-> "optitrack_ned"],
     [host |-> <<"1", "0", ".", "0", ".", "0", ".", "2">>, frame |-> "world", ned_frame |-> "world_ned"]}

\* The object the constructor leaves behind.
TrackerHandler(name, options) ==
    [name_               |-> name,
     options_            |-> options,
     tf_child_frame_     |-> name,
     tf_child_frame_ned_ |-> name \o <<"_", "n", "e", "d">>,
     tracker_            |-> name \o <<"@">> \o options.host,
     nue_to_enu_         |-> setRPY(0, -1, -1),
     nue_to_ned_         |-> setRPY(-1, 0, 0),
     enu_pub_            |-> sanitize_name(name) \o <<"_", "e", "n", "u">>,
     ned_pub_            |-> sanitize_name(name) \o <<"_", "n", "e", "d">>]

-----------------------------------------------------------------------------
(* TrackerHandler::position_callback and send_transform *)

\* ros::Time values resolve_timestamp may return
Stamps == {100, 200}

Vector3(x, y, z) == [x |-> x, y |-> y, z |-> z]

Header(stamp, frame_id) == [stamp |-> stamp, frame_id |-> frame_id]

PoseStamped(header, position, orientation) ==
    [header |-> header, pose |-> [position |-> position, orientation |-> orientation]]

\* A variant that reports the position relative to the first update received.
enu_position_relative(info) ==
    IF log = <<>>
    THEN Vector3(info.pos.Z, info.pos.X, info.pos.Y)
    ELSE Vector3(NSub(info.pos.Z, log[1].info.pos.Z),
                 NSub(info.pos.X, log[1].info.pos.X),
                 NSub(info.pos.Y, log[1].info.pos.Y))

enu_position(info) == Vector3(info.pos.Z, info.pos.X, info.pos.Y)

\* A variant that leaves the Down axis pointing up.
ned_position_up(info) == Vector3(info.pos.X, info.pos.Z, info.pos.Y)

ned_position(info) == Vector3(info.pos.X, info.pos.Z, NNeg(info.pos.Y))

nue_to_body(info) == Quaternion(info.quat.X, info.quat.Y, info.quat.Z, info.quat.W)

\* A variant with the factors of the product exchanged.
rotate_right(frame_rotation, body) == QuatMul(body, inverse(frame_rotation))

\* nue_to_enu_.inverse() * nue_to_body, and the same for nue_to_ned_
rotate(frame_rotation, body) == QuatMul(inverse(frame_rotation), body)

\* A variant that labels the NED pose with the ENU frame.
ned_msg_enu_frame(hd, info, stamp) ==
    PoseStamped(Header(stamp, hd.options_.frame),
                ned_position(info),
                rotate(hd.nue_to_ned_, nue_to_body(info)))

enu_msg(hd, info, stamp) ==
    PoseStamped(Header(stamp, hd.options_.frame),
                enu_position(info),
                rotate(hd.nue_to_enu_, nue_to_body(info)))

ned_msg(hd, info, stamp) ==
    PoseStamped(Header(stamp, hd.options_.ned_frame),
                ned_position(info),
                rotate(hd.nue_to_ned_, nue_to_body(info)))

\* A variant that fills the rotation in (w, x, y, z) order.
send_transform_wxyz(pose, child_frame) ==
    [header         |-> Header(pose.header.stamp, pose.header.frame_id),
     child_frame_id |-> child_frame,
     transform      |-> [translation |-> Vector3(pose.pose.position.x,
                                                 pose.pose.position.y,
                                                 pose.pose.position.z),
                         rotation    |-> Quaternion(pose.pose.orientation.w,
                                                    pose.pose.orientation.x,
                                                    pose.pose.orientation.y,
                                                    pose.pose.orientation.z)]]

\* The geometry_msgs::TransformStamped send_transform hands to the broadcaster.
send_transform(pose, child_frame) ==
    [header         |-> Header(pose.header.stamp, pose.header.frame_id),
     child_frame_id |-> child_frame,
     transform      |-> [translation |-> Vector3(pose.pose.position.x,
                                                 pose.pose.position.y,
                                                 pose.pose.position.z),
                         rotation    |-> Quaternion(pose.pose.orientation.x,
                                                    pose.pose.orientation.y,
                                                    pose.pose.orientation.z,
                                                    pose.pose.orientation.w)]]

Published(sink, topic, msg, update) ==
    [sink |-> sink, topic |-> topic, msg |-> msg, update |-> update]

\* A variant that publishes both poses before it broadcasts the transforms.
callback_outputs_poses_first(hd, info, stamp, update) ==
    LET enu == enu_msg(hd, info, stamp)
        ned == ned_msg(hd, info, stamp)
    IN  <<Published("enu_pub_", hd.enu_pub_, enu, update),
          Published("ned_pub_", hd.ned_pub_, ned, update),
          Published("tf_broadcaster_", <<"/", "t", "f">>, send_transform(enu, hd.tf_child_frame_), update),
          Published("tf_broadcaster_", <<"/", "t", "f">>, send_transform(ned, hd.tf_child_frame_ned_), update)>>

\* What one invocation sends, in the order it sends it; update numbers the
\* invocation.
callback_outputs(hd, info, stamp, update) ==
    LET enu == enu_msg(hd, info, stamp)
        ned == ned_msg(hd, info, stamp)
    IN  <<Published("enu_pub_", hd.enu_pub_, enu, update),
          Published("tf_broadcaster_", <<"/", "t", "f">>, send_transform(enu, hd.tf_child_frame_), update),
          Published("ned_pub_", hd.ned_pub_, ned, update),
          Published("tf_broadcaster_", <<"/", "t", "f">>, send_transform(ned, hd.tf_child_frame_ned_), update)>>

position_callback(h, info) ==
    \E stamp \in Stamps :
        /\ time_manager_calls' = Append(time_manager_calls, info.msg_time)
        /\ out' = out \o callback_outputs(handler[h], info, stamp, Len(log) + 1)
        /\ log' = Append(log, [handler |-> h, info |-> info, stamp |-> stamp])
        /\ UNCHANGED <<handler, hi_alnum, s_name, s_out, s_pc, s_fed>>

\* The static trampoline the VRPN connection calls with userData = the handler.
position_callback_wrapper(userData, info) == position_callback(userData, info)

-----------------------------------------------------------------------------
(* Tracker updates *)

TrackerCB(pos, quat, msg_time) ==
    [pos |-> [X |-> pos[1], Y |-> pos[2], Z |-> pos[3]],
     quat |-> [X |-> quat[1], Y |-> quat[2], Z |-> quat[3], W |-> quat[4]],
     msg_time |-> msg_time]

\* Spec: a few updates, among them the position (1, 2, 3), the
\* rotations identity and NUE-to-ENU, and a quarter turn about X.
SampleInfos ==
    {TrackerCB(<<Num(1), Num(2), Num(3)>>, <<Num(0), Num(0), Num(0), Num(1)>>, 10),
     TrackerCB(<<Num(1), Num(2), Num(3)>>, <<Half(-1), Half(-1), Half(-1), Half(1)>>, 20),
     TrackerCB(<<Num(-1), Num(0), Half(5)>>, <<Num(0), Num(0), Num(0), Num(1)>>, 20),
     TrackerCB(<<Num(-1), Num(0), Half(5)>>, <<Half(-1), Half(-1), Half(-1), Half(1)>>, 10),
     TrackerCB(<<Num(0), Num(-4), Num(0)>>, <<[a |-> 0, b |-> 1, k |-> 1], Num(0), Num(0), [a |-> 0, b |-> 1, k |-> 1]>>, 10),
     TrackerCB(<<Num(1), Num(2), Num(3)>>, <<Num(0), Num(1), Num(0), Num(0)>>, 30)}

\* PoseSpec: every position on a grid, with every rotation of the binary
\* octahedral group: the unit quaternions whose components are all among
\* 0 and +-1, or all +-1/2, or all among 0 and +-sqrt(2)/2
Coords == {Num(i) : i \in -MaxCoord..MaxCoord}
NormSq(q) ==
    NAdd(NAdd(NMul(q[1], q[1]), NMul(q[2], q[2])), NAdd(NMul(q[3], q[3]), NMul(q[4], q[4])))
UnitQuatsOver(comps) == {q \in comps \X comps \X comps \X comps : NormSq(q) = Num(1)}
UnitQuats ==
    UnitQuatsOver({Num(0), Num(1), Num(-1)})
        \cup UnitQuatsOver({Half(1), Half(-1)})
        \cup UnitQuatsOver({Num(0), [a |-> 0, b |-> 1, k |-> 1], [a |-> 0, b |-> -1, k |-> 1]})
GridInfos == {TrackerCB(p, q, 10) : p \in Coords \X Coords \X Coords, q \in UnitQuats}

\* Every handler has been constructed.
Constructed ==
    /\ \E options \in [Handlers -> OptionsSet] :
          handler = [h \in Handlers |-> TrackerHandler(Names[h], options[h])]
    /\ out = <<>>
    /\ log = <<>>
    /\ time_manager_calls = <<>>
    /\ s_name = <<>>
    /\ s_out = <<>>
    /\ s_pc = "call"
    /\ s_fed = FALSE

Init == hi_alnum \in BOOLEAN /\ Constructed

\* vrpn's mainloop delivers one update to the handler registered for it.
Next ==
    /\ Len(log) < MaxUpdates
    /\ \E h \in Handlers, info \in SampleInfos : position_callback_wrapper(h, info)

Spec == Init /\ [][Next]_vars

PoseInit ==
    /\ hi_alnum = FALSE
    /\ Constructed
    /\ handler["h1"].options_ # handler["h2"].options_

PoseNext ==
    /\ Len(log) < 1
    /\ \E h \in Handlers, info \in GridInfos : position_callback_wrapper(h, info)

PoseSpec == PoseInit /\ [][PoseNext]_vars

-----------------------------------------------------------------------------
(* sanitize_name: properties *)

Range(seq) == {seq[i] : i \in 1..Len(seq)}

\* What the rule of the specification yields for the character at position i.
RulePiece(name, i) ==
    LET c == name[i]
    IN  IF isalnum(c) \/ c = "/" THEN <<c>>
        ELSE IF c = "_" /\ i # 1 THEN <<c>>
        ELSE IF c = " " THEN <<"_">>
        ELSE <<>>

RECURSIVE RuleUpTo(_, _)
RuleUpTo(name, n) == IF n = 0 THEN <<>> ELSE RuleUpTo(name, n - 1) \o RulePiece(name, n)

\* C5: sanitize_name returns, in input order, each alphanumeric or '/'
\* character, each '_' that is not the first character of the input, and a
\* '_' for each space; every other character is dropped.
C5_SanitizeRule == s_pc = "ret" => s_out = RuleUpTo(s_name, Len(s_name))

\* A name with a leading '_', a letter, an inner '_', a space and a dropped
\* character.
C5_Witness ==
    /\ s_pc = "ret"
    /\ s_name = <<"_", "a", "_", " ", "-">>
    /\ s_out = <<"a", "_", "_">>

\* C6: the string sanitize_name returns does not begin with '_'.
C6_NoLeadingUnderscore == s_pc = "ret" => (Len(s_out) > 0 => s_out[1] # "_")

\* C9: the result holds only alphanumeric characters, '/' and '_', and is
\* never longer than the input.
C9_SafeCharacters ==
    s_pc = "ret" =>
        /\ \A i \in 1..Len(s_out) : isalnum(s_out[i]) \/ s_out[i] \in {"/", "_"}
        /\ Len(s_out) <= Len(s_name)
        /\ " " \notin Range(s_out)
        /\ "-" \notin Range(s_out)

\* A name with a space and a dropped character, and a shorter result.
C9_Witness ==
    /\ s_pc = "ret"
    /\ " " \in Range(s_name)
    /\ "-" \in Range(s_name)
    /\ HighByte \in Range(s_name)
    /\ 0 < Len(s_out)
    /\ Len(s_out) < Len(s_name)

\* C10: sanitize_name applied to one of its own results returns it unchanged.
C10_Idempotent == (s_pc = "ret" /\ s_fed) => s_out = s_name

-----------------------------------------------------------------------------
(* position_callback: properties *)

\* The poses published for invocation k of the callback.
EnuPosesOf(k) == {out[i].msg : i \in {j \in 1..Len(out) : out[j].update = k /\ out[j].sink = "enu_pub_"}}
NedPosesOf(k) == {out[i].msg : i \in {j \in 1..Len(out) : out[j].update = k /\ out[j].sink = "ned_pub_"}}

Negated(n) == [a |-> 0 - n.a, b |-> 0 - n.b, k |-> n.k]

Root2Over2 == [a |-> 0, b |-> 1, k |-> 1]
NUE_to_ENU == [x |-> Half(-1), y |-> Half(-1), z |-> Half(-1), w |-> Half(1)]
NUE_to_NED == [x |-> Negated(Root2Over2), y |-> Num(0), z |-> Num(0), w |-> Root2Over2]

\* inverse(NUE_to_ENU) * b and inverse(NUE_to_NED) * b, the Hamilton products
\* expanded by hand for b = (x, y, z, w).
EnuOf(b) ==
    [x |-> NMul(Half(1), NSub(NAdd(NAdd(b.x, b.w), b.z), b.y)),
     y |-> NMul(Half(1), NSub(NAdd(NAdd(b.y, b.w), b.x), b.z)),
     z |-> NMul(Half(1), NSub(NAdd(NAdd(b.z, b.w), b.y), b.x)),
     w |-> NMul(Half(1), NSub(NSub(NSub(b.w, b.x), b.y), b.z))]
NedOf(b) ==
    [x |-> NMul(Root2Over2, NAdd(b.x, b.w)),
     y |-> NMul(Root2Over2, NSub(b.y, b.z)),
     z |-> NMul(Root2Over2, NAdd(b.z, b.y)),
     w |-> NMul(Root2Over2, NSub(b.w, b.x))]

BodyQuat(info) == [x |-> info.quat.X, y |-> info.quat.Y, z |-> info.quat.Z, w |-> info.quat.W]

\* C2: the published ENU orientation is inverse(NUE_to_ENU) * body_quat and
\* the published NED orientation is inverse(NUE_to_NED) * body_quat, with
\* body_quat the input quaternion in (x, y, z, w) order and the constants
\* those of RPY (0, -pi/2, -pi/2) and RPY (-pi/2, 0, 0).
C2_Orientation ==
    /\ \A h \in Handlers :
           /\ handler[h].nue_to_enu_ = NUE_to_ENU
           /\ handler[h].nue_to_ned_ = NUE_to_NED
    /\ \A k \in 1..Len(log) :
           /\ EnuPosesOf(k) # {}
           /\ NedPosesOf(k) # {}
           /\ \A m \in EnuPosesOf(k) : m.pose.orientation = EnuOf(BodyQuat(log[k].info))
           /\ \A m \in NedPosesOf(k) : m.pose.orientation = NedOf(BodyQuat(log[k].info))

\* A body whose rotation is NUE-to-ENU itself has been published with the
\* identity as ENU orientation and a rotation that is not the identity as NED
\* orientation.
C2_Witness ==
    \E k \in 1..Len(log) :
        /\ BodyQuat(log[k].info) = NUE_to_ENU
        /\ \E m \in EnuPosesOf(k) :
               m.pose.orientation = [x |-> Num(0), y |-> Num(0), z |-> Num(0), w |-> Num(1)]
        /\ \E m \in NedPosesOf(k) :
               m.pose.orientation # [x |-> Num(0), y |-> Num(0), z |-> Num(0), w |-> Num(1)]

-----------------------------------------------------------------------------
(* position_callback and send_transform: what is sent, and in which order *)

Transforms == {i \in 1..Len(out) : out[i].sink = "tf_broadcaster_"}

HandlerOf(i) == handler[log[out[i].update].handler]

\* C3: every transform broadcast follows the pose it was made from and
\* copies it: translation = position, rotation = orientation, the same stamp
\* and parent frame; its child frame is the tracker name for the ENU pose and
\* the tracker name followed by "_ned" for the NED pose.
C3_TransformCopiesPose ==
    \A i \in Transforms :
        /\ i > 1
        /\ out[i - 1].sink \in {"enu_pub_", "ned_pub_"}
        /\ LET pose == out[i - 1].msg
               tf == out[i].msg
           IN  /\ tf.transform.translation = pose.pose.position
               /\ tf.transform.rotation = pose.pose.orientation
               /\ tf.header.stamp = pose.header.stamp
               /\ tf.header.frame_id = pose.header.frame_id
               /\ tf.child_frame_id =
                      IF out[i - 1].sink = "enu_pub_"
                      THEN HandlerOf(i).name_
                      ELSE HandlerOf(i).name_ \o <<"_", "n", "e", "d">>

\* Both transforms of an update of the second tracker, which is away from
\* the origin and rotated, have been broadcast.
C3_Witness ==
    \E i, j \in Transforms :
        /\ out[i].msg.child_frame_id = Names["h2"]
        /\ out[j].msg.child_frame_id = Names["h2"] \o <<"_", "n", "e", "d">>
        /\ out[i].msg.transform.translation = [x |-> Num(3), y |-> Num(1), z |-> Num(2)]
        /\ out[j].msg.transform.translation = [x |-> Num(1), y |-> Num(3), z |-> Num(-2)]
        /\ out[i].msg.transform.rotation # out[j].msg.transform.rotation
        /\ out[i].msg.transform.rotation.w # Num(1)

SamePoseData(i, j) ==
    /\ log[i].info.pos = log[j].info.pos
    /\ log[i].info.quat = log[j].info.quat

SameInSameOut ==
    \A i, j \in 1..Len(log) :
        SamePoseData(i, j) =>
            /\ {m.pose : m \in EnuPosesOf(i)} = {m.pose : m \in EnuPosesOf(j)}
            /\ {m.pose : m \in NedPosesOf(i)} = {m.pose : m \in NedPosesOf(j)}
            /\ EnuPosesOf(i) # {}
            /\ NedPosesOf(i) # {}

\* C4: two updates with the same position and quaternion are published with
\* the same ENU pose and the same NED pose, whichever handler takes them,
\* whatever its name and options and whatever came before; and no update
\* changes a handler's fields.
C4_Stateless == [](SameInSameOut) /\ [][handler' = handler]_vars

\* The same pose data has been delivered twice, at different times, to
\* handlers with different names and options.
C4_Witness ==
    \E i, j \in 1..Len(log) :
        /\ i < j
        /\ SamePoseData(i, j)
        /\ log[i].info.pos.X # Num(0)
        /\ log[i].handler # log[j].handler
        /\ log[i].stamp # log[j].stamp
        /\ handler[log[i].handler].options_ # handler[log[j].handler].options_

\* C7: every invocation sends exactly four outputs, in the order ENU pose on
\* the ENU topic, ENU transform, NED pose on the NED topic, NED transform,
\* and all four precede every output of the next invocation.
C7_FourOutputsInOrder ==
    /\ Len(out) = 4 * Len(log)
    /\ \A k \in 1..Len(log) :
           LET hd == handler[log[k].handler]
               o1 == out[4 * k - 3]
               o2 == out[4 * k - 2]
               o3 == out[4 * k - 1]
               o4 == out[4 * k]
           IN  /\ \A o \in {o1, o2, o3, o4} : o.update = k
               /\ o1.sink = "enu_pub_"
               /\ o1.topic = hd.enu_pub_
               /\ o1.msg.pose.position.x = log[k].info.pos.Z
               /\ o2.sink = "tf_broadcaster_"
               /\ o2.msg.child_frame_id = hd.tf_child_frame_
               /\ o3.sink = "ned_pub_"
               /\ o3.topic = hd.ned_pub_
               /\ o3.msg.pose.position.x = log[k].info.pos.X
               /\ o4.sink = "tf_broadcaster_"
               /\ o4.msg.child_frame_id = hd.tf_child_frame_ned_

\* Two updates have been handled, by different handlers.
C7_Witness ==
    /\ Len(log) = 2
    /\ Len(out) = 8
    /\ log[1].handler # log[2].handler
    /\ out[4].update = 1
    /\ out[5].update = 2

\* C8: the timestamp is resolved once per update, from the update's message
\* time; the two poses and the two transforms of the update carry it; the
\* ENU pose and transform carry options.frame and the NED pose and transform
\* options.ned_frame.
C8_StampAndFrames ==
    /\ Len(time_manager_calls) = Len(log)
    /\ \A k \in 1..Len(log) : time_manager_calls[k] = log[k].info.msg_time
    /\ \A k \in 1..Len(log) : Cardinality({i \in 1..Len(out) : out[i].update = k}) = 4
    /\ \A i \in 1..Len(out) :
           LET k == out[i].update
               enu == \/ out[i].sink = "enu_pub_"
                      \/ out[i].sink = "tf_broadcaster_" /\ out[i].msg.child_frame_id = HandlerOf(i).name_
           IN  /\ out[i].msg.header.stamp = log[k].stamp
               /\ out[i].msg.header.frame_id =
                      IF enu THEN HandlerOf(i).options_.frame ELSE HandlerOf(i).options_.ned_frame

\* Two updates with different resolved stamps have been handled by handlers
\* with different frame labels.
C8_Witness ==
    /\ Len(log) = 2
    /\ log[1].stamp # log[2].stamp
    /\ log[1].info.msg_time # log[2].info.msg_time
    /\ out[1].msg.header.frame_id = "optitrack"
    /\ out[3].msg.header.frame_id = "optitrack_ned"
    /\ out[5].msg.header.frame_id = "world"
    /\ out[8].msg.header.frame_id = "world_ned"
    /\ out[8].msg.header.stamp = log[2].stamp

=============================================================================
